---------------------------- MODULE Spec2Model ----------------------------
(***************************************************************************)
(* Model of src/odometry.py: class VisualOdometry.                         *)
(*                                                                         *)
(*   Spec       getMovement as called by test(): the recursive controller  *)
(*              (lines 19-51) over every outcome of the random trials.     *)
(*   RoundSpec  one round of getMovement (lines 29-44) on the rows of      *)
(*              diffs in the order the trials append them.                 *)
(*   PatchSpec  getPatch (lines 53-69) on frames of every small shape.     *)
(*   TestSpec   test() (lines 101-113): createBatch, then the first round  *)
(*              of getMovement with template matching on the two frames.   *)
(*                                                                         *)
(* Displacement vectors are integer pairs <<dx, dy>>.  A confidence        *)
(* (percent) is kept as the exact fraction [num, den] the code divides;    *)
(* IEEE division is correctly rounded, so comparing count/its with the     *)
(* literal 0.4 agrees with comparing the fractions exactly.                *)
(***************************************************************************)
EXTENDS Integers, Sequences, FiniteSets

(***************************************************************************)
(* Bounds of the model.                                                    *)
(***************************************************************************)
\* number of distinct displacement vectors a trial can produce
NumVectors == 4

(***************************************************************************)
(* Program constants.                                                      *)
(***************************************************************************)
\* self.threshold = 0.4, as the fraction ThresholdNum / ThresholdDen
ThresholdNum == 4
ThresholdDen == 10
\* self.maxItertations = 50
maxItertations == 50
\* def getMovement(self, frame1, frame2, its=4)
DefaultIts == 4
\* its += 4
ItsStep == 4

VARIABLES
    pc,        \* the position of the running method
    stack,     \* the `its` locals of the suspended callers, outermost first
    its,       \* `its` of the running activation; the returned its when done
    result,    \* `result`: the mode vector
    percent,   \* `percent`: [num, den] = count[argmax] / its
    tally,     \* the rows of `diffs` of the last round run, as a multiset
    ran,       \* trials executed by the last round run
    rounds,    \* rounds run so far in this call of getMovement
    total,     \* trials run so far in this call, over all rounds
    diffs,     \* `diffs`: the rows appended by the loop, in trial order
    element,   \* `element` of line 41
    count,     \* `count` of line 41
    shape,     \* frame.shape of the frame given to getPatch: <<w, h>>
    x1,        \* the draws of getPatch, NotDrawn until drawn
    x2,
    y1,
    y2,
    batch,     \* createBatch: the image drawn ("scene"), pos and offset
    yields,    \* what a trial on the frames of batch can yield (TrialsOn)
    exact      \* the vectors of this round's trials on unambiguous patches

\* what only the controller of Spec uses
ctrlVars == <<stack, tally, ran, rounds, total>>

\* what the round of RoundSpec and TestSpec uses
rowVars == <<diffs, element, count>>

\* what only getPatch of PatchSpec uses
patchVars == <<shape, x1, x2, y1, y2>>

\* what only test() of TestSpec uses
testVars == <<batch, yields, exact>>

vars == <<pc, its, result, percent, ctrlVars, rowVars, patchVars, testVars>>

(***************************************************************************)
(* Displacement vectors.                                                   *)
(***************************************************************************)
VectorAt(i) == <<(i % 3) - 1, i \div 3>>

Vectors == {VectorAt(i) : i \in 1..NumVectors}

NoVector == <<>>

\* x1, x2, y1, y2 before lines 61-65 bind them
NotDrawn == -1

NoBatch == [scene |-> "none", pos |-> <<0, 0>>, offset |-> <<0, 0>>]

\* percent before line 43 has bound it
NoPercent == [num |-> 0, den |-> 1]

\* row order of np.unique(axis=0): lexicographic, first column first
LexLess(a, b) == a[1] < b[1] \/ (a[1] = b[1] /\ a[2] < b[2])

RECURSIVE SortRows(_)
SortRows(S) ==
    IF S = {} THEN <<>>
    ELSE LET m == CHOOSE a \in S : \A b \in S \ {a} : LexLess(a, b)
         IN  <<m>> \o SortRows(S \ {m})

\* the rows a trial can produce, in the row order of np.unique
RowOrder == SortRows(Vectors)

\* a tally of the rows of diffs: t[i] is the number of rows equal to
\* RowOrder[i]
EmptyTally == [i \in 1..NumVectors |-> 0]

(***************************************************************************)
(* np.unique(diffs, axis=0, return_counts=True) on the tally of the rows:  *)
(* element = the distinct rows in ascending lexicographic order,           *)
(* count[i] = number of rows equal to element[i].                          *)
(***************************************************************************)
UniqueTally(t) ==
    LET present == SelectSeq([i \in 1..Len(t) |-> i], LAMBDA i : t[i] > 0)
    IN  [element |-> [j \in 1..Len(present) |-> RowOrder[present[j]]],
         count   |-> [j \in 1..Len(present) |-> t[present[j]]]]

\* mutant: the last index holding the largest value
ArgMaxLast(c) ==
    CHOOSE i \in 1..Len(c) :
        /\ \A j \in 1..Len(c) : c[j] <= c[i]
        /\ \A j \in (i + 1)..Len(c) : c[j] < c[i]

\* np.argmax(count): the first index holding the largest value
ArgMax(c) ==
    CHOOSE i \in 1..Len(c) :
        /\ \A j \in 1..Len(c) : c[j] <= c[i]
        /\ \A j \in 1..(i - 1) : c[j] < c[i]

\* mutant: percent < self.threshold
BelowThreshold(p) == p.num * ThresholdDen < ThresholdNum * p.den

\* percent <= self.threshold
AtMostThreshold(p) == p.num * ThresholdDen <= ThresholdNum * p.den

\* mutant: the ceiling tested on its before the increment
WithinMaxLate(n) == n - ItsStep <= maxItertations

\* its <= self.maxItertations
WithinMax(n) == n <= maxItertations

(***************************************************************************)
(* Actions of Spec.                                                        *)
(***************************************************************************)
Init ==
    /\ pc = "idle"
    /\ stack = <<>>
    /\ its = 0
    /\ result = NoVector
    /\ percent = NoPercent
    /\ tally = EmptyTally
    /\ ran = 0
    /\ rounds = 0
    /\ total = 0
    /\ diffs = <<>>
    /\ element = <<>>
    /\ count = <<>>
    /\ shape = <<0, 0>>
    /\ x1 = NotDrawn /\ x2 = NotDrawn /\ y1 = NotDrawn /\ y2 = NotDrawn
    /\ batch = NoBatch
    /\ yields = {}
    /\ exact = {}

\* test(), line 109: result, percent, its = self.getMovement(img1, img2)
Test ==
    /\ pc \in {"idle", "done"}
    /\ pc' = "estimating"
    /\ stack' = <<>>
    /\ its' = DefaultIts
    /\ result' = NoVector
    /\ percent' = NoPercent
    /\ tally' = EmptyTally
    /\ ran' = 0
    /\ rounds' = 0
    /\ total' = 0
    /\ UNCHANGED <<rowVars, patchVars, testVars>>

\* Lines 40-44 on the rows t of a finished loop.
Aggregate(t) ==
    LET u == UniqueTally(t)
        k == ArgMax(u.count)
    IN  /\ tally' = t
        /\ percent' = [num |-> u.count[k], den |-> its]
        /\ result' = u.element[k]

\* The loop of lines 30-38 with n trials to go and t the tally of the rows
\* appended so far: each trial appends one row, any of Vectors.  Trials
\* differing only in their order give the same tally; the tally is built
\* row value by row value, c rows equal to RowOrder[Len(t) + 1] at a time.
RECURSIVE Trials(_, _)
Trials(n, t) ==
    IF Len(t) = NumVectors - 1
    THEN Aggregate(Append(t, n))
    ELSE \E c \in 0..n : Trials(n - c, Append(t, c))

\* getMovement, lines 27-44, of the running activation.
Round ==
    /\ pc = "estimating"
    /\ Trials(its, <<>>)
    /\ ran' = its
    /\ rounds' = rounds + 1
    /\ total' = total + its
    /\ pc' = "decide"
    /\ UNCHANGED <<stack, its>>
    /\ UNCHANGED <<rowVars, patchVars, testVars>>

\* mutant: its left as it is
IncrementNone(n) == n

\* its += 4 (line 47)
Increment(n) == n + ItsStep

\* getMovement, lines 46-51.  The recursive call (line 49) suspends this
\* activation and starts a new one, whose locals are fresh.  A return
\* passes (result, percent, its) unchanged through every suspended caller
\* (line 49 rebinds the three names, line 51 returns them), so the whole
\* unwinding is part of the returning step.
Decide ==
    /\ pc = "decide"
    /\ IF AtMostThreshold(percent)
       THEN IF WithinMax(Increment(its))
            THEN /\ pc' = "estimating"
                 /\ stack' = Append(stack, Increment(its))
                 /\ its' = Increment(its)
                 /\ result' = NoVector
                 /\ percent' = NoPercent
                 /\ tally' = EmptyTally
                 /\ ran' = 0
            ELSE /\ pc' = "done"
                 /\ stack' = <<>>
                 /\ its' = Increment(its)
                 /\ tally' = EmptyTally
                 /\ UNCHANGED <<result, percent, ran>>
       ELSE /\ pc' = "done"
            /\ stack' = <<>>
            /\ tally' = EmptyTally
            /\ UNCHANGED <<its, result, percent, ran>>
    /\ UNCHANGED <<rounds, total>>
    /\ UNCHANGED <<rowVars, patchVars, testVars>>

Next == Test \/ Round \/ Decide

Spec == Init /\ [][Next]_vars

(***************************************************************************)
(* RoundSpec: one round of getMovement (lines 29-44) on the rows in trial  *)
(* order, for any its >= 1.                                                *)
(***************************************************************************)
\* largest its of a round of RoundSpec
MaxIts == 4

\* mutant: the rows left in trial order
SortNone(s) == s

\* the sort of np.unique: the rows in ascending lexicographic order
RECURSIVE Sort(_)
Sort(s) ==
    IF s = <<>> THEN <<>>
    ELSE LET rest == Sort(Tail(s))
             x    == Head(s)
             k    == Cardinality({i \in 1..Len(rest) : LexLess(rest[i], x)})
         IN  SubSeq(rest, 1, k) \o <<x>> \o SubSeq(rest, k + 1, Len(rest))

\* np.unique(diffs, axis=0, return_counts=True): sort the rows, mark each
\* row that differs from the one before it (mask), keep the marked rows
\* (element) and count the rows from each mark to the next (count).
Unique(d) ==
    LET aux   == Sort(d)
        n     == Len(aux)
        mask  == [i \in 1..n |-> i = 1 \/ aux[i] # aux[i - 1]]
        idx   == SelectSeq([i \in 1..n |-> i], LAMBDA i : mask[i])
        stops == idx \o <<n + 1>>
    IN  [element |-> [j \in 1..Len(idx) |-> aux[idx[j]]],
         count   |-> [j \in 1..Len(idx) |-> stops[j + 1] - stops[j]]]

RoundInit ==
    /\ pc = "loop"
    /\ its \in 1..MaxIts
    /\ diffs = <<>>
    /\ element = <<>>
    /\ count = <<>>
    /\ result = NoVector
    /\ percent = NoPercent
    /\ stack = <<>>
    /\ tally = EmptyTally
    /\ ran = 0
    /\ rounds = 0
    /\ total = 0
    /\ shape = <<0, 0>>
    /\ x1 = NotDrawn /\ x2 = NotDrawn /\ y1 = NotDrawn /\ y2 = NotDrawn
    /\ batch = NoBatch
    /\ yields = {}
    /\ exact = {}

\* lines 30-38: one trial appends its displacement vector
Trial ==
    /\ pc = "loop"
    /\ Len(diffs) < its
    /\ \E diff \in Vectors : diffs' = Append(diffs, diff)
    /\ UNCHANGED <<pc, its, result, percent, element, count>>
    /\ UNCHANGED <<ctrlVars, patchVars, testVars>>

\* lines 40-44, once the loop has run its trials
AggregateRows ==
    /\ pc = "loop"
    /\ Len(diffs) = its
    /\ LET u == Unique(diffs)
       IN  /\ element' = u.element
           /\ count' = u.count
           /\ percent' = [num |-> u.count[ArgMax(u.count)], den |-> its]
           /\ result' = u.element[ArgMax(u.count)]
    /\ pc' = "aggregated"
    /\ UNCHANGED <<its, diffs, ctrlVars, patchVars, testVars>>

RoundNext == Trial \/ AggregateRows

RoundSpec == RoundInit /\ [][RoundNext]_vars

(***************************************************************************)
(* PatchSpec: getPatch (lines 53-69) on a frame of any shape.              *)
(***************************************************************************)
\* largest frame.shape[0] and frame.shape[1] of PatchSpec
MaxDim == 8

\* np.random.randint(low, high) draws from low .. high - 1 and raises
\* ValueError when that range is empty
RandInt(low, high) == low..(high - 1)

CanDraw(low, high) == low < high

\* mutant: origins drawn from one less
OriginHighLess(n) == n - 6

\* the exclusive upper end of the origin draw (lines 61, 64):
\* randint(0, w-5), randint(0, h-5)
OriginHigh(n) == n - 5

\* mutant: extents drawn from the origin on
ExtentLowSame(o) == o

\* the lower end of the extent draw (lines 62, 65): randint(x1+1, w),
\* randint(y1+1, h)
ExtentLow(o) == o + 1

\* the pairs <<origin, extent>> lines 61-62 (or 64-65) can draw along an
\* axis of length n
AxisDraws(n) ==
    UNION {{<<o, e>> : e \in RandInt(ExtentLow(o), n)} :
              o \in RandInt(0, OriginHigh(n))}

PatchInit ==
    /\ pc = "sampling"
    /\ shape \in (0..MaxDim) \X (0..MaxDim)
    /\ x1 = NotDrawn /\ x2 = NotDrawn /\ y1 = NotDrawn /\ y2 = NotDrawn
    /\ its = 0
    /\ result = NoVector
    /\ percent = NoPercent
    /\ stack = <<>>
    /\ tally = EmptyTally
    /\ ran = 0
    /\ rounds = 0
    /\ total = 0
    /\ diffs = <<>>
    /\ element = <<>>
    /\ count = <<>>
    /\ batch = NoBatch
    /\ yields = {}
    /\ exact = {}

\* getPatch(frame), lines 58-69: the draws in the order of lines 61-65;
\* a draw from an empty range raises and ends the call with what was drawn
\* before it.
getPatch ==
    /\ pc = "sampling"
    /\ LET w == shape[1]
           h == shape[2]
       IN  IF ~CanDraw(0, OriginHigh(w))
           THEN /\ pc' = "raised"
                /\ UNCHANGED <<x1, x2, y1, y2>>
           ELSE \E xs \in AxisDraws(w) :
                  /\ x1' = xs[1]
                  /\ x2' = xs[2]
                  /\ IF ~CanDraw(0, OriginHigh(h))
                     THEN /\ pc' = "raised"
                          /\ UNCHANGED <<y1, y2>>
                     ELSE \E ys \in AxisDraws(h) :
                            /\ y1' = ys[1]
                            /\ y2' = ys[2]
                            /\ pc' = "returned"
    /\ UNCHANGED <<shape, its, result, percent, ctrlVars, rowVars, testVars>>

PatchNext == getPatch

PatchSpec == PatchInit /\ [][PatchNext]_vars

(***************************************************************************)
(* TestSpec: one pass of the loop of test() (lines 106-113) on the frames  *)
(* of createBatch, up to the return or the recursive call of the first     *)
(* round.  The images are black and white (convert('1'), line 85), so a    *)
(* pixel of a frame is 0 or 1; a crop reaching outside of the image is     *)
(* filled with 0, as PIL fills it.                                         *)
(***************************************************************************)
\* `dim` of createBatch (200 in the code): half the side of a frame
Dim == 3

\* offset = randint(0, MaxOffset + 1, size=2)  (the code draws below 50)
MaxOffset == 1

\* the images of ./imgs (line 83 chooses one of them)
Scenes == {"black", "dot", "stairs"}

\* img.size: image scene is Size(scene) x Size(scene)
Size(scene) == IF scene = "stairs" THEN 3 ELSE 1

\* the white pixels <<x, y>> of image scene after convert('1')
White(scene) ==
    CASE scene = "black"  -> {}
      [] scene = "dot"    -> {<<0, 0>>}
      [] scene = "stairs" -> {<<0, 1>>, <<1, 0>>, <<1, 1>>, <<2, 0>>}

\* the pixel of image scene at column x, row y
Image(scene, x, y) ==
    IF x < 0 \/ y < 0 \/ x >= Size(scene) \/ y >= Size(scene) THEN 0
    ELSE IF <<x, y>> \in White(scene) THEN 1 ELSE 0

\* Image.crop((left, upper, right, lower)) as an array: [row][column]
Crop(scene, left, upper, right, lower) ==
    [r \in 0..(lower - upper - 1) |->
        [c \in 0..(right - left - 1) |-> Image(scene, left + c, upper + r)]]

\* img1 of createBatch, lines 92 and 95
Frame1(b) ==
    Crop(b.scene, b.pos[1] - Dim, b.pos[2] - Dim, b.pos[1] + Dim, b.pos[2] + Dim)

\* img2 of createBatch, lines 93 and 96
Frame2(b) ==
    Crop(b.scene, b.pos[1] + b.offset[1] - Dim, b.pos[2] + b.offset[2] - Dim,
                  b.pos[1] + b.offset[1] + Dim, b.pos[2] + b.offset[2] + Dim)

\* what createBatch can return (lines 83-88)
Batches ==
    UNION {[scene : {s},
            pos : (0..(Size(s) - 1)) \X (0..(Size(s) - 1)),
            offset : (0..MaxOffset) \X (0..MaxOffset)] : s \in Scenes}

Rows(f) == Cardinality(DOMAIN f)

Cols(f) == Cardinality(DOMAIN f[0])

\* frame[x1:x2, y1:y2] (line 67), p = <<x1, x2, y1, y2>>
Template(frame, p) ==
    [i \in 0..(p[2] - p[1] - 1) |->
        [j \in 0..(p[4] - p[3] - 1) |-> frame[p[1] + i][p[3] + j]]]

\* the patches getPatch can return for a frame
Patches(frame) ==
    {<<xs[1], xs[2], ys[1], ys[2]>> :
        xs \in AxisDraws(Rows(frame)), ys \in AxisDraws(Cols(frame))}

\* cv2.matchTemplate(img, template, 4) at row r, column c of its result:
\* TM_CCOEFF, sum T'.I' with T' = T - mean(T), I' = I - mean(I under T),
\* which is sum(T.I) - sum(T).sum(I)/N.  Kept times N (and times the
\* 255 * 255 of the two divisions by 255, lines 27 and 67), which changes
\* no comparison of two places.  The pixels being 0 or 1, a sum is a
\* count.
Coeff(img, t, r, c) ==
    LET cells == (DOMAIN t) \X (DOMAIN t[0])
        sumTI == Cardinality({ij \in cells :
                     t[ij[1]][ij[2]] = 1 /\ img[r + ij[1]][c + ij[2]] = 1})
        sumT  == Cardinality({ij \in cells : t[ij[1]][ij[2]] = 1})
        sumI  == Cardinality({ij \in cells : img[r + ij[1]][c + ij[2]] = 1})
    IN  Cardinality(cells) * sumTI - sumT * sumI

\* the places of the result of matchTemplate: <<row, column>>
Places(img, t) ==
    (0..(Rows(img) - Rows(t))) \X (0..(Cols(img) - Cols(t)))

\* res of line 34, as the set of <<place, value>>
matchTemplate(img, t) ==
    {<<a, Coeff(img, t, a[1], a[2])>> : a \in Places(img, t)}

\* max_loc of cv2.minMaxLoc (line 35): the first place, rows from the top
\* and each row from the left, that holds the largest value; returned as
\* (x, y) = <<column, row>>
minMaxLoc(res) ==
    LET top  == CHOOSE e \in res : \A f \in res : f[2] <= e[2]
        at   == {e[1] : e \in {f \in res : f[2] = top[2]}}
        best == CHOOSE a \in at :
                  \A b \in at : a[1] < b[1] \/ (a[1] = b[1] /\ a[2] <= b[2])
    IN  <<best[2], best[1]>>

\* diff = np.array(max_loc) - np.array([y1, x1])  (line 37)
Diff(maxLoc, p) == <<maxLoc[1] - p[3], maxLoc[2] - p[1]>>

\* the template of p shows at least two different pixels
NonUniform(t) ==
    \E i, k \in DOMAIN t : \E j, l \in DOMAIN t[0] : t[i][j] # t[k][l]

\* the places of img that show exactly the pixels of t
ShownAt(img, t) ==
    {a \in Places(img, t) :
        \A i \in DOMAIN t : \A j \in DOMAIN t[0] :
            img[a[1] + i][a[2] + j] = t[i][j]}

\* The patch p of frame2 is unambiguous: it is not uniform, and frame1
\* shows its pixels at one place only, the place of p moved by offset.
Unambiguous(frame1, frame2, offset, p) ==
    LET t == Template(frame2, p)
    IN  /\ NonUniform(t)
        /\ ShownAt(frame1, t) = {<<p[1] + offset[2], p[3] + offset[1]>>}

\* What the trials of lines 32-37 can yield on the frames of b: for each
\* patch the vector of line 37, and whether the patch is unambiguous.
TrialsOn(b) ==
    LET frame1 == Frame1(b)
        frame2 == Frame2(b)
    IN  {<<Diff(minMaxLoc(matchTemplate(frame1, Template(frame2, p))), p),
           Unambiguous(frame1, frame2, b.offset, p)>> :
            p \in Patches(frame2)}

TestInit ==
    /\ pc = "idle"
    /\ batch = NoBatch
    /\ yields = {}
    /\ exact = {}
    /\ its = 0
    /\ result = NoVector
    /\ percent = NoPercent
    /\ stack = <<>>
    /\ tally = EmptyTally
    /\ ran = 0
    /\ rounds = 0
    /\ total = 0
    /\ diffs = <<>>
    /\ element = <<>>
    /\ count = <<>>
    /\ shape = <<0, 0>>
    /\ x1 = NotDrawn /\ x2 = NotDrawn /\ y1 = NotDrawn /\ y2 = NotDrawn

\* lines 108-109: createBatch returns the frames of b, getMovement is
\* called on them with its = 4 and starts its loop
createBatch ==
    /\ pc = "idle"
    /\ \E b \in Batches :
         /\ batch' = b
         /\ yields' = TrialsOn(b)
    /\ its' = DefaultIts
    /\ diffs' = <<>>
    /\ exact' = {}
    /\ pc' = "loop"
    /\ UNCHANGED <<result, percent, element, count, ctrlVars, patchVars>>

\* lines 32-38: one trial on the frames of batch.  The trials of a round
\* are followed in ascending order of their vectors only: neither lines
\* 40-44 (C6_OrderIndependent) nor exact depends on their order.
TrialOnFrames ==
    /\ pc = "loop"
    /\ Len(diffs) < its
    /\ \E y \in yields :
         /\ IF diffs = <<>> THEN TRUE ELSE ~LexLess(y[1], diffs[Len(diffs)])
         /\ diffs' = Append(diffs, y[1])
         /\ exact' = IF y[2] THEN exact \cup {y[1]} ELSE exact
    /\ UNCHANGED <<pc, its, result, percent, element, count, batch, yields>>
    /\ UNCHANGED <<ctrlVars, patchVars>>

\* lines 46 and 51: the confidence exceeds the threshold, getMovement
\* returns (result, percent, its)
Return ==
    /\ pc = "aggregated"
    /\ ~AtMostThreshold(percent)
    /\ pc' = "done"
    /\ UNCHANGED <<its, result, percent, ctrlVars, rowVars, patchVars, testVars>>

\* lines 46-49: the confidence does not exceed the threshold, getMovement
\* calls itself with its + 4 (followed in Spec, not here)
Recurse ==
    /\ pc = "aggregated"
    /\ AtMostThreshold(percent)
    /\ WithinMax(Increment(its))
    /\ pc' = "recursing"
    /\ its' = Increment(its)
    /\ UNCHANGED <<result, percent, ctrlVars, rowVars, patchVars, testVars>>

TestNext == createBatch \/ TrialOnFrames \/ AggregateRows \/ Return \/ Recurse

TestSpec == TestInit /\ [][TestNext]_vars

(***************************************************************************)
(* Properties of the controller (Spec).                                    *)
(***************************************************************************)
\* the number of rows of tally t that equal the vector v
CountIn(t, v) ==
    IF \E i \in 1..Len(t) : RowOrder[i] = v
    THEN t[CHOOSE i \in 1..Len(t) : RowOrder[i] = v]
    ELSE 0

MultiplesOfStep == {DefaultIts + ItsStep * k : k \in 0..maxItertations}

\* C1: at every return of getMovement with the defaults the confidence
\* lies in [0, 1] and the returned its is one of 4, 8, 12, ... and lies in
\* [4, maxItertations].
C1_ReturnedInRange ==
    pc = "done" =>
        /\ 0 <= percent.num /\ percent.num <= percent.den /\ percent.den > 0
        /\ its \in MultiplesOfStep
        /\ DefaultIts <= its /\ its <= maxItertations

\* C2: on every exit path the returned triple describes the round that was
\* run last: the returned its is the number of trials that round executed,
\* the returned vector is a most frequent row of it, and the returned
\* confidence is (rows equal to the returned vector) / (returned its).
C2_ReturnDescribesLastRound ==
    [][(pc = "decide" /\ pc' = "done") =>
          /\ its' = ran
          /\ \A i \in 1..Len(tally) : tally[i] <= CountIn(tally, result')
          /\ percent'.num * its' = CountIn(tally, result') * percent'.den]_vars

\* C3 as stated: the trials of all rounds of one call never sum to more
\* than maxItertations.
C3_TotalWithinMax == total <= maxItertations

\* C3 as amended: maxItertations bounds the trials of each single round;
\* the total of a call is the sum 4 + 8 + ... of its rounds, at most 312.
C3_EachRoundWithinMax ==
    /\ ran <= maxItertations
    /\ (pc = "estimating" => its <= maxItertations)
    /\ total = (ItsStep \div 2) * rounds * (rounds + 1)
    /\ total <= 312

C3_Witness == pc = "done" /\ total > maxItertations /\ ran <= maxItertations

\* ceil((maxTrials - initialTrials) / trialIncrement)
DepthBound == (maxItertations - DefaultIts + ItsStep - 1) \div ItsStep

\* what is left of a call: the rounds it may still run, then the step the
\* running activation is at
Variant ==
    3 * (DepthBound + 1 - rounds)
      + (CASE pc = "decide" -> 2 [] pc = "estimating" -> 1 [] OTHER -> 0)

\* C4: every call of getMovement returns, after at most
\* ceil((50 - 4) / 4) + 1 = 13 rounds, with never more than
\* ceil((50 - 4) / 4) = 12 activations of getMovement on the call stack:
\* a call that has not returned can always take its next step, and each of
\* its steps lowers Variant, which never goes below 0.
C4_Terminates ==
    /\ [](rounds <= DepthBound + 1)
    /\ [](pc \in {"estimating", "decide"} => Len(stack) + 1 <= DepthBound)
    /\ [](pc \in {"estimating", "decide"} => ENABLED (Round \/ Decide))
    /\ [](Variant >= 0)
    /\ [][(pc \in {"estimating", "decide"}) => (Variant' < Variant)]_vars

C4_Witness ==
    pc = "done" /\ rounds = DepthBound /\ AtMostThreshold(percent)

TallyOf(d) ==
    [i \in 1..NumVectors |->
        Cardinality({j \in 1..Len(d) : d[j] = RowOrder[i]})]

\* The tallies of Spec stand for the rows of a round: np.unique on a tally
\* is np.unique on any sequence of rows with that tally.
TallyAgrees ==
    pc = "aggregated" =>
        /\ UniqueTally(TallyOf(diffs)).element = element
        /\ UniqueTally(TallyOf(diffs)).count = count

\* the orders the trials of a round of n trials can come in
Orders(n) == {p \in [1..n -> 1..n] : \A i, j \in 1..n : p[i] = p[j] => i = j}

\* the number of rows of d equal to v
Occurrences(d, v) == Cardinality({j \in 1..Len(d) : d[j] = v})

\* the mode and confidence lines 40-44 give for the rows d
ModeOf(d) == Unique(d).element[ArgMax(Unique(d).count)]

ConfidenceOf(d) == [num |-> Unique(d).count[ArgMax(Unique(d).count)], den |-> Len(d)]

\* C6: the rows of a round taken in any other order give the same mode
\* vector and the same confidence, ties for the largest count included.
C6_OrderIndependent ==
    pc = "aggregated" =>
        \A p \in Orders(Len(diffs)) :
            LET d == [i \in 1..Len(diffs) |-> diffs[p[i]]]
            IN  /\ ModeOf(d) = result
                /\ ConfidenceOf(d) = percent

\* the vectors with the largest number of rows in d
Modes(d) ==
    {v \in Vectors :
        /\ Occurrences(d, v) > 0
        /\ \A w \in Vectors : Occurrences(d, w) <= Occurrences(d, v)}

\* the index of the first row of d equal to v
FirstAt(d, v) == CHOOSE j \in 1..Len(d) : d[j] = v /\ \A i \in 1..(j - 1) : d[i] # v

\* a tie for the largest count, first met in descending row order
C6_Witness ==
    /\ pc = "aggregated"
    /\ Cardinality(Modes(diffs)) > 1
    /\ \E v \in Modes(diffs) : FirstAt(diffs, v) < FirstAt(diffs, result)

\* C9 as stated: among vectors tied for the largest count the round selects
\* the one met first in the trial sequence.
C9_FirstEncountered ==
    pc = "aggregated" =>
        /\ result \in Modes(diffs)
        /\ \A v \in Modes(diffs) : FirstAt(diffs, result) <= FirstAt(diffs, v)

\* C9 as amended: among vectors tied for the largest count the round selects
\* the lexicographically smallest (first column first), whatever the order
\* the trials met them in.
C9_LexSmallest ==
    pc = "aggregated" =>
        /\ result \in Modes(diffs)
        /\ \A v \in Modes(diffs) \ {result} : LexLess(result, v)

\* three vectors tied, the selected one met last
C9_Witness ==
    /\ pc = "aggregated"
    /\ Cardinality(Modes(diffs)) > 2
    /\ \A v \in Modes(diffs) : FirstAt(diffs, v) <= FirstAt(diffs, result)

(***************************************************************************)
(* Properties of getPatch (PatchSpec).                                     *)
(***************************************************************************)
\* C7 as stated: getPatch on a 6x6 frame never raises; for a frame with
\* w <= 5 or h <= 5 nothing is drawn and no patch is returned.
C7_RejectedBeforeSampling ==
    /\ shape = <<6, 6>> => pc # "raised"
    /\ (shape[1] <= 5 \/ shape[2] <= 5) =>
          /\ pc # "returned"
          /\ x1 = NotDrawn /\ x2 = NotDrawn /\ y1 = NotDrawn /\ y2 = NotDrawn

\* C7 as amended: getPatch on a 6x6 frame never raises; for a frame with
\* w <= 5 or h <= 5 getPatch raises and returns no patch.  With w <= 5
\* nothing has been drawn; with w > 5 and h <= 5 the row origin x1 and row
\* extent x2 have been drawn when the column draw raises.
C7_RaisesNoPatch ==
    /\ (shape = <<6, 6>> /\ pc # "sampling") => pc = "returned"
    /\ (shape[1] <= 5 \/ shape[2] <= 5) =>
          /\ pc \in {"sampling", "raised"}
          /\ y1 = NotDrawn /\ y2 = NotDrawn
    /\ shape[1] <= 5 => (x1 = NotDrawn /\ x2 = NotDrawn)
    /\ (shape[1] > 5 /\ shape[2] <= 5 /\ pc = "raised") =>
          (x1 \in 0..(shape[1] - 6) /\ x2 \in (x1 + 1)..(shape[1] - 1))
    /\ (shape[1] > 5 /\ shape[2] > 5) => pc # "raised"

C7_Witness ==
    /\ pc = "raised"
    /\ shape[1] > 5 /\ shape[2] <= 5
    /\ x1 # NotDrawn /\ x2 # NotDrawn

\* C10: on a frame with w > 5 and h > 5 getPatch returns
\* 0 <= x1 <= w-6, x1 < x2 <= w-1, 0 <= y1 <= h-6, y1 < y2 <= h-1: the patch
\* frame[x1:x2, y1:y2] has at least one row and one column, lies inside the
\* frame and is no larger than the frame.
C10_PatchValid ==
    (shape[1] > 5 /\ shape[2] > 5 /\ pc # "sampling") =>
        /\ pc = "returned"
        /\ 0 <= x1 /\ x1 <= shape[1] - 6
        /\ x1 < x2 /\ x2 <= shape[1] - 1
        /\ 0 <= y1 /\ y1 <= shape[2] - 6
        /\ y1 < y2 /\ y2 <= shape[2] - 1
        /\ x2 - x1 >= 1 /\ x2 - x1 <= shape[1]
        /\ y2 - y1 >= 1 /\ y2 - y1 <= shape[2]

\* the last origin with the smallest patch, the first origin with the largest
C10_Witness ==
    /\ pc = "returned"
    /\ shape[1] > 6 /\ shape[2] > 6
    /\ x1 = shape[1] - 6 /\ x2 = x1 + 1
    /\ y1 = 0 /\ y2 = shape[2] - 1

(***************************************************************************)
(* Properties of test() (TestSpec).                                        *)
(***************************************************************************)
\* C5: whenever getMovement returns a confidence above the threshold on the
\* frames of createBatch, the returned vector is the offset of the batch,
\* in the axis order and sign createBatch used.
C5_OffsetRecovered ==
    pc = "done" => result = batch.offset

\* What the code does ensure: a trial on an unambiguous patch yields the
\* offset exactly, so a returned vector that is the vector of such a trial
\* is the offset.
ExactWhenUnambiguous ==
    /\ \A d \in exact : d = batch.offset
    /\ (pc = "done" /\ result \in exact) => result = batch.offset

=============================================================================
